---- MODULE Spec2Model ----
(***************************************************************************)
(* A model of the PDF translation pipeline of src/pdf_translator.py:       *)
(* Translator (cache, fail-open backend calls), PDFRenderer and the        *)
(* PDFTranslator.translate_pdf orchestrator.                               *)
(*                                                                         *)
(* Text is a sequence of code points (97 is "a", 32 a space, 945 "alpha"), *)
(* so that str.strip(), str.lower(), the Unicode range tests and the       *)
(* f-string that builds the cache key are computed, not assumed.           *)
(***************************************************************************)
EXTENDS Integers, Sequences, FiniteSets, TLC

VARIABLES
    client,        \* Translator.client is truthy (a backend is configured)
    source_lang,   \* Translator.source_lang
    target_lang,   \* Translator.target_lang
    cache,         \* Translator.cache: cache key -> translated text
    ncalls,        \* number of texts handed to the Translator so far
    hist,          \* the last two translate_text calls, oldest first
    stored,        \* ghost: every cache write, with the triple it was made for
    results,       \* the value returned by the last translate_blocks call
    tb,            \* ghost: what the last translate_blocks call did per block
                   \* (in translate_pdf: what its translate_blocks call has
                   \* done so far)
    rpc,           \* create_translated_pdf: "idle", "returned" or "raised"
    rin,           \* the arguments of the create_translated_pdf call
    rout,          \* the output document it built (returned, or lost on raise)
    pc,            \* translate_pdf: where the call is
    pdf,           \* translate_pdf's pdf_bytes: whether they parse, and the pages
    opts,          \* translate_text, translate_images, progress_callback
    ocr_available, \* OCRProcessor.available
    doc,           \* the source document: "unopened", "open" or "closed"
    text_blocks,   \* translate_pdf's text_blocks
    translated_blocks, \* the (block, text) pairs built so far
    images,        \* translate_pdf's images, as translate_images mutates them
    step,          \* translate_pdf's step
    idx,           \* blocks or images the running translation loop has done
    progress,      \* the calls progress_callback has received, in order
    output_doc,    \* the output document: its state and its pages
    output_bytes,  \* what translate_pdf returned
    raised_by,     \* the call whose exception left translate_pdf
    ncalled,       \* backend calls made during translate_pdf
    img_results,   \* the value returned by the last translate_images call
    ti,            \* ghost: what the last translate_images call did per image
                   \* (in translate_pdf: what its translate_images call has
                   \* done so far)
    cb_calls,      \* the fractions the progress callback of the last
                   \* translate_blocks / translate_images call received
    threads,       \* concurrent translate_text calls: where each thread is
    xpc,           \* extractor / OCR call: "idle" or "returned"
    xin,           \* the method called and its arguments
    xout           \* the value it returned

tvars == <<client, source_lang, target_lang, cache, ncalls, hist, stored,
           results, tb>>

rvars == <<rpc, rin, rout>>

pvars == <<pc, pdf, opts, ocr_available, doc, text_blocks, translated_blocks,
           images, step, idx, progress, output_doc, output_bytes, raised_by,
           ncalled>>

cvars == <<img_results, ti, cb_calls, threads>>

xvars == <<xpc, xin, xout>>

vars == <<tvars, rvars, pvars, cvars, xvars>>

----------------------------------------------------------------------------
(* Bounds and input sets *)

\* Texts handed to one Translator over its life (a translate_blocks call of
\* n blocks counts n).
MaxUnits == 3

\* Input texts: "", " ", "a", " a".
Texts == { <<>>, <<32>>, <<97>>, <<32, 97>> }

\* message.content values a backend can reply with: " ", "b " and "a".
Replies == { <<32>>, <<98, 32>>, <<97>> }

\* Language codes (keys of lang_names): "en", "ko".
Langs == { <<101, 110>>, <<107, 111>> }

\* What one client.chat.completions.create call can do: raise, return a
\* response whose choices/content cannot be read, or return content.
Outcomes ==
    { [kind |-> "raise", content |-> <<>>],
      [kind |-> "malformed", content |-> <<>>] }
    \cup { [kind |-> "ok", content |-> r] : r \in Replies }

----------------------------------------------------------------------------
(* str.strip() *)

\* str.isspace() of one character
IsSpace(c) == c \in {9, 10, 11, 12, 13, 28, 29, 30, 31, 32, 133, 160}

RECURSIVE lstrip(_)
lstrip(s) ==
    IF s = <<>> THEN <<>>
    ELSE IF IsSpace(Head(s)) THEN lstrip(Tail(s)) ELSE s

RECURSIVE rstrip(_)
rstrip(s) ==
    IF s = <<>> THEN <<>>
    ELSE IF IsSpace(s[Len(s)]) THEN rstrip(SubSeq(s, 1, Len(s) - 1)) ELSE s

strip(s) == rstrip(lstrip(s))

----------------------------------------------------------------------------
(* Translator *)

\* TextBlock (the fields the Translator and the Renderer read).
TextBlock(text, page_num, is_formula) ==
    [text |-> text, page_num |-> page_num, is_formula |-> is_formula]

\* ImageBlock (the fields the Translator and the Renderer read).
ImageBlock(image, page_num, ocr_text, translated_text) ==
    [image |-> image, page_num |-> page_num, ocr_text |-> ocr_text,
     translated_text |-> translated_text]

cache_key_stripped(src, tgt, text) == src \o <<95>> \o tgt \o <<95>> \o strip(text)

\* cache_key = f"{self.source_lang}_{self.target_lang}_{text}"
cache_key(src, tgt, text) == src \o <<95>> \o tgt \o <<95>> \o text

\* Translator.translate_text on cache c: the value returned, the cache
\* afterwards, whether the backend was called, whether an exception left the
\* method, and the branch taken.
translate_text_cache_failure(c, text, o) ==
    IF text = <<>> \/ strip(text) = <<>>
    THEN [ret |-> text, cache |-> c, called |-> FALSE, raised |-> FALSE,
          path |-> "blank"]
    ELSE LET key == cache_key(source_lang, target_lang, text) IN
         IF key \in DOMAIN c
         THEN [ret |-> c[key], cache |-> c, called |-> FALSE,
               raised |-> FALSE, path |-> "hit"]
         ELSE IF ~client
         THEN [ret |-> text, cache |-> c, called |-> FALSE,
               raised |-> FALSE, path |-> "noclient"]
         ELSE IF o.kind = "ok"
         THEN [ret |-> strip(o.content),
               cache |-> (key :> strip(o.content)) @@ c,
               called |-> TRUE, raised |-> FALSE, path |-> "success"]
         ELSE [ret |-> text, cache |-> (key :> text) @@ c, called |-> TRUE,
               raised |-> FALSE, path |-> "failure"]

translate_text_no_store(c, text, o) ==
    IF text = <<>> \/ strip(text) = <<>>
    THEN [ret |-> text, cache |-> c, called |-> FALSE, raised |-> FALSE,
          path |-> "blank"]
    ELSE LET key == cache_key(source_lang, target_lang, text) IN
         IF key \in DOMAIN c
         THEN [ret |-> c[key], cache |-> c, called |-> FALSE,
               raised |-> FALSE, path |-> "hit"]
         ELSE IF ~client
         THEN [ret |-> text, cache |-> c, called |-> FALSE,
               raised |-> FALSE, path |-> "noclient"]
         ELSE IF o.kind = "ok"
         THEN [ret |-> strip(o.content), cache |-> c,
               called |-> TRUE, raised |-> FALSE, path |-> "success"]
         ELSE [ret |-> text, cache |-> c, called |-> TRUE,
               raised |-> FALSE, path |-> "failure"]

translate_text_cache_noclient(c, text, o) ==
    IF text = <<>> \/ strip(text) = <<>>
    THEN [ret |-> text, cache |-> c, called |-> FALSE, raised |-> FALSE,
          path |-> "blank"]
    ELSE LET key == cache_key(source_lang, target_lang, text) IN
         IF key \in DOMAIN c
         THEN [ret |-> c[key], cache |-> c, called |-> FALSE,
               raised |-> FALSE, path |-> "hit"]
         ELSE IF ~client
         THEN [ret |-> text, cache |-> (key :> text) @@ c, called |-> FALSE,
               raised |-> FALSE, path |-> "noclient"]
         ELSE IF o.kind = "ok"
         THEN [ret |-> strip(o.content),
               cache |-> (key :> strip(o.content)) @@ c,
               called |-> TRUE, raised |-> FALSE, path |-> "success"]
         ELSE [ret |-> text, cache |-> c, called |-> TRUE,
               raised |-> FALSE, path |-> "failure"]

translate_text(c, text, o) ==
    IF text = <<>> \/ strip(text) = <<>>
    THEN [ret |-> text, cache |-> c, called |-> FALSE, raised |-> FALSE,
          path |-> "blank"]
    ELSE LET key == cache_key(source_lang, target_lang, text) IN
         IF key \in DOMAIN c
         THEN [ret |-> c[key], cache |-> c, called |-> FALSE,
               raised |-> FALSE, path |-> "hit"]
         ELSE IF ~client
         THEN [ret |-> text, cache |-> c, called |-> FALSE,
               raised |-> FALSE, path |-> "noclient"]
         ELSE IF o.kind = "ok"
         THEN [ret |-> strip(o.content),
               cache |-> (key :> strip(o.content)) @@ c,
               called |-> TRUE, raised |-> FALSE, path |-> "success"]
         ELSE [ret |-> text, cache |-> c, called |-> TRUE,
               raised |-> FALSE, path |-> "failure"]

\* One block of translate_blocks' loop body (lines 293-297): the translated
\* text paired with the block, and the translate_text result behind it
\* (path "formula" when translate_text is not called).
translate_block_always(c, block, o) ==
    translate_text(c, block.text, o)

translate_block(c, block, o) ==
    IF block.is_formula
    THEN [ret |-> block.text, cache |-> c, called |-> FALSE,
          raised |-> FALSE, path |-> "formula"]
    ELSE translate_text(c, block.text, o)

\* translate_blocks' loop from cache c over blocks, outs[i] being what the
\* backend does if it is called for block i: the per-block results in order.
RECURSIVE translate_blocks_from(_, _, _)
translate_blocks_from(c, blocks, outs) ==
    IF blocks = <<>> THEN <<>>
    ELSE LET r == translate_block(c, Head(blocks), Head(outs)) IN
         <<r>> \o translate_blocks_from(r.cache, Tail(blocks), Tail(outs))

translate_image_always(c, img, o) ==
    translate_text(c, img.ocr_text, o)

\* One image of translate_images' loop body (lines 310-311): the value
\* translated_text has afterwards, and the translate_text result behind it
\* (path "skip" when translate_text is not called).
translate_image(c, img, o) ==
    IF img.ocr_text # <<>>
    THEN translate_text(c, img.ocr_text, o)
    ELSE [ret |-> img.translated_text, cache |-> c, called |-> FALSE,
          raised |-> FALSE, path |-> "skip"]

\* Ghost: the cache entries that differ between two caches, as records of
\* the triple the write was made for and the branch that made it.
Writes(before, text, r) ==
    { [key |-> k, source_lang |-> source_lang, target_lang |-> target_lang,
       text |-> text, value |-> r.cache[k], path |-> r.path] :
      k \in { k \in DOMAIN r.cache :
                k \notin DOMAIN before \/ before[k] # r.cache[k] } }

CallRecord(text, o, r, before) ==
    [text |-> text, ret |-> r.ret, called |-> r.called, raised |-> r.raised,
     path |-> r.path, okind |-> IF r.called THEN o.kind ELSE "none",
     before |-> before, after |-> r.cache]

\* translator.translate_text(text)
TranslateTextCall ==
    /\ ncalls < MaxUnits
    /\ \E text \in Texts, o \in Outcomes :
         LET r == translate_text(cache, text, o) IN
         /\ cache' = r.cache
         /\ hist' = IF Len(hist) < 2
                    THEN Append(hist, CallRecord(text, o, r, cache))
                    ELSE <<hist[2], CallRecord(text, o, r, cache)>>
         /\ stored' = stored \cup Writes(cache, text, r)
    /\ ncalls' = ncalls + 1
    /\ UNCHANGED <<client, source_lang, target_lang, results, tb, rvars, cvars, xvars, pvars>>

BlockChoices ==
    { TextBlock(<<97>>, 0, FALSE), TextBlock(<<97>>, 0, TRUE),
      TextBlock(<<32, 97>>, 0, TRUE) }

BlockLists(n) == UNION { [1..k -> BlockChoices] : k \in 0..n }

\* What the backend does for one block of a translate_blocks call.
BlockOutcomes ==
    { [kind |-> "raise", content |-> <<>>],
      [kind |-> "ok", content |-> <<32>>],
      [kind |-> "ok", content |-> <<98, 32>>] }

\* The cache a translate_blocks loop has before block i.
CacheBefore(rs, i) == IF i = 1 THEN cache ELSE rs[i - 1].cache

progress_calls_zero_based(total, given) ==
    IF given THEN [i \in 1..total |-> [num |-> i - 1, den |-> total]]
    ELSE <<>>

\* if progress_callback: progress_callback((idx + 1) / total), once per
\* iteration of a loop over total items: the fractions passed, in order.
progress_calls(total, given) ==
    IF given THEN [i \in 1..total |-> [num |-> i, den |-> total]]
    ELSE <<>>

\* translator.translate_blocks(blocks, progress_callback), the callback
\* being None or a callable that takes the fraction
TranslateBlocksCall ==
    /\ ncalls < MaxUnits
    /\ \E blocks \in BlockLists(MaxUnits - ncalls), given \in BOOLEAN :
       \E outs \in [1..Len(blocks) -> BlockOutcomes] :
         LET rs == translate_blocks_from(cache, blocks, outs) IN
         /\ results' = [i \in 1..Len(blocks) |-> <<blocks[i], rs[i].ret>>]
         /\ tb' = [i \in 1..Len(blocks) |->
                     [called |-> rs[i].called,
                      wrote |-> rs[i].cache # CacheBefore(rs, i),
                      block |-> blocks[i],
                      path |-> rs[i].path]]
         /\ cb_calls' = progress_calls(Len(blocks), given)
         /\ cache' = IF blocks = <<>> THEN cache ELSE rs[Len(rs)].cache
         /\ stored' = stored \cup
                UNION { Writes(CacheBefore(rs, i), blocks[i].text, rs[i]) :
                        i \in 1..Len(blocks) }
         /\ ncalls' = ncalls + Len(blocks)
    /\ hist' = <<>>
    /\ UNCHANGED <<client, source_lang, target_lang, rvars, img_results, ti,
                   threads, xvars, pvars>>

\* translate_images' loop from cache c over imgs, outs[i] being what the
\* backend does if it is called for image i: the per-image results in order.
RECURSIVE translate_images_from(_, _, _)
translate_images_from(c, imgs, outs) ==
    IF imgs = <<>> THEN <<>>
    ELSE LET r == translate_image(c, Head(imgs), Head(outs)) IN
         <<r>> \o translate_images_from(r.cache, Tail(imgs), Tail(outs))

\* ImageBlocks handed to translate_images: ocr_text "" with translated_text
\* "" or "b", and ocr_text "a".
ImageChoices ==
    { ImageBlock("img", 0, <<>>, <<>>), ImageBlock("img", 0, <<>>, <<98>>),
      ImageBlock("img", 0, <<97>>, <<>>) }

\* What the backend does for one image of a translate_images call.
ImageOutcomes ==
    { [kind |-> "raise", content |-> <<>>],
      [kind |-> "ok", content |-> <<98, 32>>] }

ImageBlockLists(n) == UNION { [1..k -> ImageChoices] : k \in 0..n }

\* translator.translate_images(images, progress_callback), the callback
\* being None or a callable that takes the fraction
TranslateImagesCall ==
    /\ ncalls < MaxUnits
    /\ \E imgs \in ImageBlockLists(MaxUnits - ncalls), given \in BOOLEAN :
       \E outs \in [1..Len(imgs) -> ImageOutcomes] :
         LET rs == translate_images_from(cache, imgs, outs) IN
         /\ img_results' = [i \in 1..Len(imgs) |->
                              [imgs[i] EXCEPT !.translated_text = rs[i].ret]]
         /\ ti' = [i \in 1..Len(imgs) |->
                     [before |-> imgs[i], called |-> rs[i].called,
                      path |-> rs[i].path]]
         /\ cb_calls' = progress_calls(Len(imgs), given)
         /\ cache' = IF imgs = <<>> THEN cache ELSE rs[Len(rs)].cache
         /\ stored' = stored \cup
                UNION { Writes(CacheBefore(rs, i), imgs[i].ocr_text, rs[i]) :
                        i \in 1..Len(imgs) }
         /\ ncalls' = ncalls + Len(imgs)
    /\ hist' = <<>>
    /\ UNCHANGED <<client, source_lang, target_lang, results, tb, rvars,
                   threads, xvars, pvars>>

\* No translate_pdf call is in progress.
PipelineIdle ==
    /\ pc = "idle"
    /\ pdf = << >>
    /\ opts = << >>
    /\ ocr_available = FALSE
    /\ doc = "unopened"
    /\ text_blocks = <<>>
    /\ translated_blocks = <<>>
    /\ images = <<>>
    /\ step = 0
    /\ idx = 0
    /\ progress = <<>>
    /\ output_doc = [state |-> "none", pages |-> <<>>]
    /\ output_bytes = "none"
    /\ raised_by = "none"
    /\ ncalled = 0

\* No create_translated_pdf call is in progress.
RendererIdle ==
    /\ rpc = "idle"
    /\ rin = << >>
    /\ rout = << >>

\* No extractor or OCR call has been made.
ExtractorIdle ==
    /\ xpc = "idle"
    /\ xin = << >>
    /\ xout = << >>

\* No translate_images call and no call with a progress callback has been
\* made.
NoImageCall ==
    /\ img_results = <<>>
    /\ ti = <<>>
    /\ cb_calls = <<>>

\* The Translator is used by one thread only.
NoThreads == threads = << >>

InitTr ==
    /\ RendererIdle
    /\ ExtractorIdle
    /\ NoImageCall
    /\ NoThreads
    /\ PipelineIdle
    /\ client \in BOOLEAN
    /\ source_lang \in Langs
    /\ target_lang \in Langs
    /\ cache = << >>
    /\ ncalls = 0
    /\ hist = <<>>
    /\ stored = {}
    /\ results = <<>>
    /\ tb = <<>>

NextTr == TranslateTextCall \/ TranslateBlocksCall

SpecTr == InitTr /\ [][NextTr]_vars

\* A Translator whose translate_text and translate_images are called.
NextTrImages == TranslateTextCall \/ TranslateImagesCall

SpecTrImages == InitTr /\ [][NextTrImages]_vars

----------------------------------------------------------------------------
(* translate_text called from several threads on one Translator. The class
   holds no lock; a step is what the interpreter runs without switching
   threads: one dictionary operation, or the remote call. *)

MaxThreads == 2

Threads == 1..MaxThreads

\* A thread that is not in translate_text.
IdleThread == [pc |-> "idle", text |-> <<>>, reply |-> <<>>, ret |-> <<>>]

\* The cache key a thread's call uses (line 245).
ThreadKey(t) == cache_key(source_lang, target_lang, threads[t].text)

\* translate_text(text) begins: the blank test (lines 241-242).
ConcCall(t) ==
    /\ threads[t].pc = "idle"
    /\ ncalls < MaxUnits
    /\ \E text \in Texts :
         threads' = [threads EXCEPT ![t] =
            IF text = <<>> \/ strip(text) = <<>>
            THEN [pc |-> "done", text |-> text, reply |-> <<>>, ret |-> text]
            ELSE [pc |-> "lookup", text |-> text, reply |-> <<>>,
                  ret |-> <<>>]]
    /\ ncalls' = ncalls + 1
    /\ UNCHANGED <<client, source_lang, target_lang, cache, hist, stored,
                   results, tb, img_results, ti, cb_calls, rvars, xvars,
                   pvars>>

\* The cache lookup and the client test (lines 245-250).
ConcLookup(t) ==
    /\ threads[t].pc = "lookup"
    /\ threads' = [threads EXCEPT ![t] =
          IF ThreadKey(t) \in DOMAIN cache
          THEN [@ EXCEPT !.pc = "done", !.ret = cache[ThreadKey(t)]]
          ELSE IF ~client
          THEN [@ EXCEPT !.pc = "done", !.ret = threads[t].text]
          ELSE [@ EXCEPT !.pc = "backend"]]
    /\ UNCHANGED <<tvars, img_results, ti, cb_calls, rvars, xvars, pvars>>

\* client.chat.completions.create and .strip() of the reply, or the except
\* branch (lines 260-277, 281-283).
ConcBackend(t) ==
    /\ threads[t].pc = "backend"
    /\ \E o \in BlockOutcomes :
         threads' = [threads EXCEPT ![t] =
            IF o.kind = "ok"
            THEN [@ EXCEPT !.pc = "store", !.reply = strip(o.content)]
            ELSE [@ EXCEPT !.pc = "done", !.ret = threads[t].text]]
    /\ UNCHANGED <<tvars, img_results, ti, cb_calls, rvars, xvars, pvars>>

\* self.cache[cache_key] = translated; return translated (lines 278-279).
ConcStore(t) ==
    /\ threads[t].pc = "store"
    /\ LET after == (ThreadKey(t) :> threads[t].reply) @@ cache IN
         /\ cache' = after
         /\ stored' = stored \cup
               Writes(cache, threads[t].text,
                      [cache |-> after, path |-> "success"])
    /\ threads' = [threads EXCEPT ![t] =
                     [@ EXCEPT !.pc = "done", !.ret = threads[t].reply]]
    /\ UNCHANGED <<client, source_lang, target_lang, ncalls, hist, results,
                   tb, img_results, ti, cb_calls, rvars, xvars, pvars>>

\* The caller has the value; the thread may call again.
ConcReturn(t) ==
    /\ threads[t].pc = "done"
    /\ threads' = [threads EXCEPT ![t] = IdleThread]
    /\ UNCHANGED <<tvars, img_results, ti, cb_calls, rvars, xvars, pvars>>

InitConc ==
    /\ RendererIdle
    /\ ExtractorIdle
    /\ PipelineIdle
    /\ NoImageCall
    /\ client \in BOOLEAN
    /\ source_lang = <<101, 110>>
    /\ target_lang = <<107, 111>>
    /\ cache = << >>
    /\ ncalls = 0
    /\ hist = <<>>
    /\ stored = {}
    /\ results = <<>>
    /\ tb = <<>>
    /\ threads = [t \in Threads |-> IdleThread]

NextConc ==
    \E t \in Threads :
        \/ ConcCall(t)
        \/ ConcLookup(t)
        \/ ConcBackend(t)
        \/ ConcStore(t)
        \/ ConcReturn(t)

SpecConc == InitConc /\ [][NextConc]_vars

----------------------------------------------------------------------------
(* PDFRenderer *)

MaxPages == 2
MaxRBlocks == 2

\* What the drawing calls made for one block do: page.draw_rect, the
\* fitz.TextWriter / fitz.Font constructors, text_writer.append and
\* write_text, page.insert_text and page.insert_textbox.
RenderOutcome(rect, writer, write, itext, ibox) ==
    [draw_rect |-> rect, writer |-> writer, write |-> write,
     insert_text |-> itext, insert_textbox |-> ibox]

OkOutcome == RenderOutcome("ok", "ok", "ok", "ok", "ok")

RenderOutcomes ==
    { OkOutcome,
      RenderOutcome("raise", "ok", "ok", "ok", "ok"),
      RenderOutcome("ok", "raise", "ok", "ok", "ok"),
      RenderOutcome("ok", "raise", "ok", "ok", "raise"),
      RenderOutcome("ok", "ok", "raise", "ok", "ok"),
      RenderOutcome("ok", "ok", "raise", "raise", "ok"),
      RenderOutcome("ok", "ok", "raise", "raise", "raise") }

\* One drawing call on a page: the call, the block or image it was made
\* for (its index in the list), and whether it succeeded.
Op(op, item, ok) == [op |-> op, item |-> item, ok |-> ok]

\* PDFRenderer._insert_text for item i: the calls it makes, in order. No
\* exception leaves it.
insert_text_ops(i, e) ==
    IF e.writer = "raise"
    THEN <<Op("text_writer", i, FALSE),
           Op("insert_textbox", i, e.insert_textbox = "ok")>>
    ELSE IF e.write = "ok"
    THEN <<Op("text_writer", i, TRUE)>>
    ELSE IF e.insert_text = "ok"
    THEN <<Op("text_writer", i, FALSE), Op("insert_text", i, TRUE)>>
    ELSE <<Op("text_writer", i, FALSE), Op("insert_text", i, FALSE),
           Op("insert_textbox", i, e.insert_textbox = "ok")>>

\* The test that decides whether _overlay_translations redraws a block.
overlay_draws(pair, page_num) ==
    /\ pair[1].page_num = page_num
    /\ ~pair[1].is_formula
    /\ pair[1].text # pair[2]

replace_draws_formula(pair, page_num) ==
    pair[1].page_num = page_num

\* The test that decides whether _replace_with_translations redraws a block.
replace_draws(pair, page_num) ==
    /\ pair[1].page_num = page_num
    /\ ~pair[1].is_formula

\* _overlay_translations / _replace_with_translations from block i on: the
\* drawing calls made on the page and whether an exception left the method
\* (page.draw_rect is outside every try).
RECURSIVE draw_blocks(_, _, _, _, _)
draw_blocks(tblocks, page_num, overlay_mode, env, i) ==
    IF i > Len(tblocks) THEN [ops |-> <<>>, raised |-> FALSE]
    ELSE IF ~(IF overlay_mode THEN overlay_draws(tblocks[i], page_num)
                              ELSE replace_draws(tblocks[i], page_num))
    THEN draw_blocks(tblocks, page_num, overlay_mode, env, i + 1)
    ELSE IF env[i].draw_rect = "raise"
    THEN [ops |-> <<Op("draw_rect", i, FALSE)>>, raised |-> TRUE]
    ELSE LET rest == draw_blocks(tblocks, page_num, overlay_mode, env, i + 1)
         IN  [ops |-> <<Op("draw_rect", i, TRUE)>>
                      \o insert_text_ops(i, env[i]) \o rest.ops,
              raised |-> rest.raised]

RECURSIVE add_image_translations_all(_, _, _, _)
add_image_translations_all(imgs, page_num, ienv, i) ==
    IF i > Len(imgs) THEN [ops |-> <<>>, raised |-> FALSE]
    ELSE IF imgs[i].page_num # page_num
    THEN add_image_translations_all(imgs, page_num, ienv, i + 1)
    ELSE IF ienv[i].draw_rect = "raise"
    THEN [ops |-> <<Op("caption_rect", i, FALSE)>>, raised |-> TRUE]
    ELSE LET rest == add_image_translations_all(imgs, page_num, ienv, i + 1)
         IN  [ops |-> <<Op("caption_rect", i, TRUE),
                        Op("caption_text", i, ienv[i].insert_textbox = "ok")>>
                      \o rest.ops,
              raised |-> rest.raised]

\* _add_image_translations from image i on.
RECURSIVE add_image_translations(_, _, _, _)
add_image_translations(imgs, page_num, ienv, i) ==
    IF i > Len(imgs) THEN [ops |-> <<>>, raised |-> FALSE]
    ELSE IF imgs[i].page_num # page_num \/ imgs[i].translated_text = <<>>
    THEN add_image_translations(imgs, page_num, ienv, i + 1)
    ELSE IF ienv[i].draw_rect = "raise"
    THEN [ops |-> <<Op("caption_rect", i, FALSE)>>, raised |-> TRUE]
    ELSE LET rest == add_image_translations(imgs, page_num, ienv, i + 1)
         IN  [ops |-> <<Op("caption_rect", i, TRUE),
                        Op("caption_text", i, ienv[i].insert_textbox = "ok")>>
                      \o rest.ops,
              raised |-> rest.raised]

new_page_default(source_page) == [width |-> 595, height |-> 842]

\* output_doc.new_page(width=source_page.rect.width, height=...)
new_page(source_page) ==
    [width |-> source_page.width, height |-> source_page.height]

\* The body of create_translated_pdf's loop for page page_num (0-based).
render_page(source_doc, tblocks, imgs, overlay_mode, env, ienv, page_num) ==
    LET np == new_page(source_doc[page_num + 1])
        copy == <<Op("show_pdf_page", page_num, TRUE)>>
        b == draw_blocks(tblocks, page_num, overlay_mode, env, 1)
        c == IF b.raised \/ imgs = <<>>
             THEN [ops |-> <<>>, raised |-> FALSE]
             ELSE add_image_translations(imgs, page_num, ienv, 1)
    IN  [page |-> [width |-> np.width, height |-> np.height,
                   ops |-> copy \o b.ops \o c.ops],
         raised |-> b.raised \/ c.raised]

\* create_translated_pdf from page page_num on: the pages of output_doc and
\* whether an exception left the method before it could return output_doc.
RECURSIVE render_pages(_, _, _, _, _, _, _)
render_pages(source_doc, tblocks, imgs, overlay_mode, env, ienv, page_num) ==
    IF page_num >= Len(source_doc) THEN [pages |-> <<>>, raised |-> FALSE]
    ELSE LET p == render_page(source_doc, tblocks, imgs, overlay_mode,
                              env, ienv, page_num)
         IN  IF p.raised THEN [pages |-> <<p.page>>, raised |-> TRUE]
             ELSE LET rest == render_pages(source_doc, tblocks, imgs,
                                           overlay_mode, env, ienv,
                                           page_num + 1)
                  IN  [pages |-> <<p.page>> \o rest.pages,
                       raised |-> rest.raised]

create_translated_pdf(source_doc, tblocks, imgs, overlay_mode, env, ienv) ==
    render_pages(source_doc, tblocks, imgs, overlay_mode, env, ienv, 0)

\* Source documents: Letter landscape and A4 portrait pages, alternating.
PageRect(i) ==
    IF i % 2 = 1 THEN [width |-> 792, height |-> 612]
                 ELSE [width |-> 595, height |-> 842]

SourceDocs == { [i \in 1..n |-> PageRect(i)] : n \in 1..MaxPages }

\* (block, translated text) pairs on the first page or on page index
\* MaxPages - 1: "a" kept, "a" -> "b", "a" -> "" (first page only), and a
\* formula block paired with its own or (first page only) with another text.
PairChoices ==
    { <<TextBlock(<<97>>, pg, FALSE), t>> :
        pg \in {0, MaxPages - 1}, t \in {<<97>>, <<98>>} }
    \cup { <<TextBlock(<<97>>, 0, FALSE), <<>>>>,
           <<TextBlock(<<97>>, 0, TRUE), <<98>>>> }
    \cup { <<TextBlock(<<97>>, pg, TRUE), <<97>>>> : pg \in {0, MaxPages - 1} }

PairLists == UNION { [1..k -> PairChoices] : k \in 0..MaxRBlocks }

ImageLists ==
    { <<>>,
      <<ImageBlock("img", 0, <<>>, <<>>),
        ImageBlock("img", 1, <<97>>, <<98>>)>> }

ImageRenderOutcomes ==
    { [draw_rect |-> "ok", insert_textbox |-> "ok"],
      [draw_rect |-> "ok", insert_textbox |-> "raise"],
      [draw_rect |-> "raise", insert_textbox |-> "ok"] }

\* Blocks and images some page of the document can draw.
CanDraw(source_doc, tblocks, overlay_mode) ==
    { i \in 1..Len(tblocks) :
        /\ tblocks[i][1].page_num < Len(source_doc)
        /\ ~tblocks[i][1].is_formula
        /\ (overlay_mode => tblocks[i][1].text # tblocks[i][2]) }

CanCaption(source_doc, imgs) ==
    { i \in 1..Len(imgs) :
        /\ imgs[i].page_num < Len(source_doc)
        /\ imgs[i].translated_text # <<>> }

\* renderer.create_translated_pdf(source_doc, translated_blocks,
\*                                translated_images, overlay_mode)
CreateTranslatedPdfCall ==
    /\ rpc = "idle"
    /\ \E source_doc \in SourceDocs, tblocks \in PairLists,
          imgs \in ImageLists, overlay_mode \in BOOLEAN :
       \E d \in [CanDraw(source_doc, tblocks, overlay_mode) -> RenderOutcomes],
          c \in [CanCaption(source_doc, imgs) -> ImageRenderOutcomes] :
         LET env == [i \in 1..Len(tblocks) |->
                        IF i \in DOMAIN d THEN d[i] ELSE OkOutcome]
             ienv == [i \in 1..Len(imgs) |->
                        IF i \in DOMAIN c THEN c[i]
                        ELSE [draw_rect |-> "ok", insert_textbox |-> "ok"]]
             r == create_translated_pdf(source_doc, tblocks, imgs,
                                        overlay_mode, env, ienv)
         IN  /\ rin' = [source_doc |-> source_doc, tblocks |-> tblocks,
                        imgs |-> imgs, overlay_mode |-> overlay_mode,
                        env |-> env, ienv |-> ienv]
             /\ rout' = r.pages
             /\ rpc' = IF r.raised THEN "raised" ELSE "returned"
    /\ UNCHANGED <<tvars, pvars, cvars, xvars>>

\* A Translator nobody calls.
TranslatorIdle ==
    /\ NoImageCall
    /\ NoThreads
    /\ client = FALSE
    /\ source_lang = <<101, 110>>
    /\ target_lang = <<107, 111>>
    /\ cache = << >>
    /\ ncalls = 0
    /\ hist = <<>>
    /\ stored = {}
    /\ results = <<>>
    /\ tb = <<>>

InitRender ==
    RendererIdle /\ TranslatorIdle /\ PipelineIdle /\ ExtractorIdle

NextRender == CreateTranslatedPdfCall

SpecRender == InitRender /\ [][NextRender]_vars

----------------------------------------------------------------------------
(* PDFTextExtractor and OCRProcessor *)

FORMULA_FONT_PATTERNS ==
    { <<109, 97, 116, 104>>,            \* math
      <<115, 121, 109, 98, 111, 108>>,  \* symbol
      <<99, 109, 101, 120>>,            \* cmex
      <<99, 109, 115, 121>>,            \* cmsy
      <<99, 109, 109, 105>>,            \* cmmi
      <<99, 109, 114>>,                 \* cmr
      <<109, 115, 97, 109>>,            \* msam
      <<109, 115, 98, 109>>,            \* msbm
      <<101, 117, 102, 109>>,           \* eufm
      <<101, 117, 114, 98>>,            \* eurb
      <<101, 117, 115, 98>>,            \* eusb
      <<67, 77, 69, 88>>,               \* CMEX
      <<67, 77, 83, 89>>,               \* CMSY
      <<67, 77, 77, 73>>,               \* CMMI
      <<67, 77, 82>> }                  \* CMR

FORMULA_UNICODE_RANGES ==
    { <<880, 1023>>,    \* 0x0370-0x03FF
      <<8704, 8959>>,   \* 0x2200-0x22FF
      <<8448, 8527>>,   \* 0x2100-0x214F
      <<8592, 8703>> }  \* 0x2190-0x21FF

\* str.lower() (ASCII letters)
lower(s) == [i \in 1..Len(s) |-> IF s[i] \in 65..90 THEN s[i] + 32 ELSE s[i]]

\* pattern in text
Contains(text, pattern) ==
    \E i \in 1..(Len(text) - Len(pattern) + 1) :
        SubSeq(text, i, i + Len(pattern) - 1) = pattern

is_formula_font(font_name) ==
    /\ font_name # <<>>
    /\ \E pattern \in FORMULA_FONT_PATTERNS :
         Contains(lower(font_name), lower(pattern))

is_formula_char(code) ==
    \E r \in FORMULA_UNICODE_RANGES : r[1] <= code /\ code <= r[2]

\* A style run of a line, as page.get_text("dict") gives it.
Span(text, font) == [text |-> text, font |-> font]

\* line_text of a line: its spans' texts, concatenated.
RECURSIVE line_text(_)
line_text(spans) ==
    IF spans = <<>> THEN <<>>
    ELSE Head(spans).text \o line_text(Tail(spans))

line_is_formula_every_run(spans) ==
    \A k \in 1..Len(spans) :
        \/ is_formula_font(spans[k].font)
        \/ \E j \in 1..Len(spans[k].text) : is_formula_char(spans[k].text[j])

\* is_formula of a line (PDFTranslator builds the extractor with
\* preserve_formulas=True).
line_is_formula(spans) ==
    \E k \in 1..Len(spans) :
        \/ is_formula_font(spans[k].font)
        \/ \E j \in 1..Len(spans[k].text) : is_formula_char(spans[k].text[j])

\* _process_text_block over the lines of one page: a TextBlock for every
\* line whose text is not blank.
RECURSIVE process_lines(_, _)
process_lines(lines, page_num) ==
    IF lines = <<>> THEN <<>>
    ELSE LET t == line_text(Head(lines))
             rest == process_lines(Tail(lines), page_num)
         IN  IF strip(t) # <<>>
             THEN <<TextBlock(strip(t), page_num,
                              line_is_formula(Head(lines)))>> \o rest
             ELSE rest

\* extract_text_blocks from page page_num (0-based) on.
RECURSIVE extract_text_blocks_from(_, _)
extract_text_blocks_from(pages, page_num) ==
    IF page_num >= Len(pages) THEN <<>>
    ELSE process_lines(pages[page_num + 1].lines, page_num)
         \o extract_text_blocks_from(pages, page_num + 1)

extract_text_blocks(pages) == extract_text_blocks_from(pages, 0)

\* extract_images' default min_size
MinSize == 50

\* An embedded image: its pixel size, whether extracting it raises (in
\* doc.extract_image, Image.open or page.get_image_rects), and what
\* pytesseract.image_to_string does with it.
Image(width, height, corrupt, ocr_kind, ocr_text) ==
    [width |-> width, height |-> height, corrupt |-> corrupt,
     ocr_kind |-> ocr_kind, ocr_text |-> ocr_text]

RECURSIVE page_images_abort(_, _, _)
page_images_abort(imgs, page_num, min_size) ==
    IF imgs = <<>> THEN <<>>
    ELSE LET im == Head(imgs)
             rest == page_images_abort(Tail(imgs), page_num, min_size)
         IN  IF im.corrupt THEN <<>>
             ELSE IF im.width < min_size \/ im.height < min_size THEN rest
             ELSE <<ImageBlock(im, page_num, <<>>, <<>>)>> \o rest

RECURSIVE page_images_both_small(_, _, _)
page_images_both_small(imgs, page_num, min_size) ==
    IF imgs = <<>> THEN <<>>
    ELSE LET im == Head(imgs)
             rest == page_images_both_small(Tail(imgs), page_num, min_size)
         IN  IF im.corrupt THEN rest
             ELSE IF im.width < min_size /\ im.height < min_size THEN rest
             ELSE <<ImageBlock(im, page_num, <<>>, <<>>)>> \o rest

\* extract_images' loop over the images of one page.
RECURSIVE page_images(_, _, _)
page_images(imgs, page_num, min_size) ==
    IF imgs = <<>> THEN <<>>
    ELSE LET im == Head(imgs)
             rest == page_images(Tail(imgs), page_num, min_size)
         IN  IF im.corrupt THEN rest
             ELSE IF im.width < min_size \/ im.height < min_size THEN rest
             ELSE <<ImageBlock(im, page_num, <<>>, <<>>)>> \o rest

RECURSIVE extract_images_from(_, _, _)
extract_images_from(pages, page_num, min_size) ==
    IF page_num >= Len(pages) THEN <<>>
    ELSE page_images(pages[page_num + 1].images, page_num, min_size)
         \o extract_images_from(pages, page_num + 1, min_size)

extract_images(pages) == extract_images_from(pages, 0, MinSize)

\* OCRProcessor.process_image
process_image(available, image) ==
    IF ~available THEN <<>>
    ELSE IF image.ocr_kind = "raise" THEN <<>>
    ELSE strip(image.ocr_text)

process_images_always(available, imgs) ==
    [i \in 1..Len(imgs) |->
        [imgs[i] EXCEPT !.ocr_text = process_image(available, imgs[i].image)]]

\* OCRProcessor.process_images
process_images(available, imgs) ==
    IF ~available THEN imgs
    ELSE [i \in 1..Len(imgs) |->
            [imgs[i] EXCEPT
                !.ocr_text = process_image(available, imgs[i].image)]]

----------------------------------------------------------------------------
(* PDFTranslator.translate_pdf *)

Arial == <<65, 114, 105, 97, 108>>
CMMI10 == <<67, 77, 77, 73, 49, 48>>

\* Lines: "a" in Arial, "a" in CMMI10, " " and " a" + " ".
ProseLine == <<Span(<<97>>, Arial)>>
FormulaLine == <<Span(<<97>>, CMMI10)>>
BlankLine == <<Span(<<32>>, Arial)>>
PaddedLine == <<Span(<<32, 97>>, Arial), Span(<<32>>, Arial)>>

\* Images: one OCR reads " a" from, one it reads " " from, one it fails on,
\* a 10x10 one and one that does not decode.
OkImage == Image(100, 100, FALSE, "ok", <<32, 97>>)
NoTextImage == Image(100, 100, FALSE, "ok", <<32>>)
OcrFailImage == Image(100, 100, FALSE, "raise", <<>>)
SmallImage == Image(10, 10, FALSE, "ok", <<32, 97>>)
CorruptImage == Image(100, 100, TRUE, "ok", <<32, 97>>)

\* The content of a page.
PageTemplates ==
    { [lines |-> <<>>, images |-> <<>>],
      [lines |-> <<ProseLine, FormulaLine>>, images |-> <<>>],
      [lines |-> <<>>, images |-> <<OkImage, NoTextImage, OcrFailImage>>],
      [lines |-> <<BlankLine, PaddedLine>>,
       images |-> <<SmallImage, CorruptImage, OkImage>>] }

\* The documents translate_pdf is given: pages of alternating size.
Documents ==
    { [i \in DOMAIN t |-> [width |-> PageRect(i).width,
                           height |-> PageRect(i).height,
                           lines |-> t[i].lines, images |-> t[i].images]] :
      t \in UNION { [1..n -> PageTemplates] : n \in 1..MaxPages } }

\* pdf_bytes: bytes fitz.open cannot parse, or a document.
Pdfs ==
    { [valid |-> FALSE, pages |-> <<>>] }
    \cup { [valid |-> TRUE, pages |-> d] : d \in Documents }

\* progress_callback: None, a callable that requires (fraction, message),
\* or one whose message has a default (as app.py's update_progress).
Callbacks == { "none", "fraction_message", "message_optional" }

Options ==
    [translate_text : BOOLEAN, translate_images : BOOLEAN,
     progress_callback : Callbacks]

\* total_steps = 4 if translate_images else 3
total_steps == IF opts.translate_images THEN 4 ELSE 3

\* Whether both documents of the call are closed.
DocsClosed == doc = "closed" /\ output_doc.state = "closed"

\* if progress_callback: progress_callback(num/den, message)
notify(log, num, den) ==
    IF opts.progress_callback = "none" THEN log
    ELSE Append(log, [num |-> num, den |-> den, message |-> TRUE,
                      closed |-> DocsClosed])

update_progress_unscaled(log, sub_num, sub_den) ==
    [log |-> IF opts.progress_callback = "message_optional"
             THEN Append(log, [num |-> sub_num, den |-> sub_den,
                               message |-> FALSE, closed |-> DocsClosed])
             ELSE log,
     raised |-> opts.progress_callback = "fraction_message"]

\* update_progress(sub_num/sub_den): progress_callback(overall), one
\* argument. A callable that requires a message rejects the call with a
\* TypeError before it receives anything.
update_progress(log, sub_num, sub_den) ==
    [log |-> IF opts.progress_callback = "message_optional"
             THEN Append(log, [num |-> step * sub_den + sub_num,
                               den |-> sub_den * total_steps,
                               message |-> FALSE, closed |-> DocsClosed])
             ELSE log,
     raised |-> opts.progress_callback = "fraction_message"]

\* What the backend does for one text during translate_pdf: as above, or
\* client.chat.completions.create (called without a timeout, line 260)
\* never returns.
PipelineOutcomes == BlockOutcomes \cup { [kind |-> "hang", content |-> <<>>] }

\* What pytesseract.image_to_string (called without a timeout, line 212)
\* does during translate_pdf: it returns or raises for every image, or it
\* never returns.
OcrResponses == { "returns", "never" }

\* What the drawing calls do during translate_pdf (the same for every block
\* of the call).
PipelineRenderOutcomes ==
    { OkOutcome,
      RenderOutcome("raise", "ok", "ok", "ok", "ok"),
      RenderOutcome("ok", "raise", "ok", "ok", "raise") }

PipelineImageRenderOutcomes ==
    { [draw_rect |-> "ok", insert_textbox |-> "ok"],
      [draw_rect |-> "raise", insert_textbox |-> "ok"] }

OpenDocument_lenient ==
    /\ pc = "call"
    /\ doc' = "open"
    /\ pc' = "step1"
    /\ UNCHANGED <<raised_by, tvars, rvars, cvars, xvars, pdf, opts, ocr_available,
                   text_blocks, translated_blocks, images, step, idx,
                   progress, output_doc, output_bytes, ncalled>>

\* doc = fitz.open(stream=pdf_bytes, filetype="pdf") (lines 515-521)
OpenDocument ==
    /\ pc = "call"
    /\ IF pdf.valid
       THEN doc' = "open" /\ pc' = "step1" /\ UNCHANGED raised_by
       ELSE doc' = doc /\ pc' = "raised" /\ raised_by' = "fitz.open"
    /\ UNCHANGED <<tvars, rvars, cvars, xvars, pdf, opts, ocr_available, text_blocks,
                   translated_blocks, images, step, idx, progress,
                   output_doc, output_bytes, ncalled>>

\* Step 1 (lines 529-533)
ExtractTextBlocks ==
    /\ pc = "step1"
    /\ progress' = notify(progress, 1, 10)
    /\ text_blocks' = extract_text_blocks(pdf.pages)
    /\ step' = 1
    /\ pc' = "step2"
    /\ UNCHANGED <<tvars, rvars, cvars, xvars, pdf, opts, ocr_available, doc,
                   translated_blocks, images, idx, output_doc, output_bytes,
                   raised_by, ncalled>>

BeginTextTranslation_render_first ==
    /\ pc = "step2"
    /\ pc' = "step4"
    /\ UNCHANGED <<tvars, rvars, cvars, xvars, pdf, opts, ocr_available, doc,
                   text_blocks, translated_blocks, step, idx, progress,
                   images, output_doc, output_bytes, raised_by, ncalled>>

BeginTextTranslation_ignore_flag ==
    /\ pc = "step2"
    /\ IF text_blocks # <<>>
       THEN /\ progress' = notify(progress, 3, 10)
            /\ idx' = 0
            /\ pc' = "translate_blocks"
            /\ UNCHANGED <<translated_blocks, step>>
       ELSE /\ translated_blocks' = <<>>
            /\ step' = 2
            /\ pc' = "step3"
            /\ UNCHANGED <<progress, idx>>
    /\ UNCHANGED <<tvars, rvars, cvars, xvars, pdf, opts, ocr_available, doc,
                   text_blocks, images, output_doc, output_bytes, raised_by,
                   ncalled>>

\* Step 2, up to the call of translate_blocks (lines 536-547)
BeginTextTranslation ==
    /\ pc = "step2"
    /\ IF opts.translate_text /\ text_blocks # <<>>
       THEN /\ progress' = notify(progress, 3, 10)
            /\ idx' = 0
            /\ pc' = "translate_blocks"
            /\ UNCHANGED <<translated_blocks, step>>
       ELSE /\ translated_blocks' =
                [i \in 1..Len(text_blocks) |->
                    <<text_blocks[i], text_blocks[i].text>>]
            /\ step' = 2
            /\ pc' = "step3"
            /\ UNCHANGED <<progress, idx>>
    /\ UNCHANGED <<tvars, rvars, cvars, xvars, pdf, opts, ocr_available, doc, text_blocks,
                   images, output_doc, output_bytes, raised_by, ncalled>>

\* One iteration of translate_blocks' loop with its progress callback
\* (lines 291-300), and after the last one step = 2 (line 547).
TranslateBlock ==
    /\ pc = "translate_blocks"
    /\ \E o \in PipelineOutcomes :
         LET block == text_blocks[idx + 1]
             r == translate_block(cache, block, o)
             u == update_progress(progress, idx + 1, Len(text_blocks))
         IN  IF r.called /\ o.kind = "hang"
             THEN /\ pc' = "blocked"
                  /\ ncalled' = ncalled + 1
                  /\ UNCHANGED <<translated_blocks, cache, progress, idx,
                                 step, raised_by, tb>>
             ELSE
             /\ translated_blocks' = Append(translated_blocks, <<block, r.ret>>)
             /\ tb' = Append(tb, [called |-> r.called,
                                  wrote |-> r.cache # cache,
                                  block |-> block, path |-> r.path])
             /\ cache' = r.cache
             /\ ncalled' = ncalled + (IF r.called THEN 1 ELSE 0)
             /\ progress' = u.log
             /\ idx' = idx + 1
             /\ IF u.raised
                THEN /\ pc' = "raised"
                     /\ raised_by' = "progress_callback"
                     /\ UNCHANGED step
                ELSE /\ UNCHANGED raised_by
                     /\ IF idx + 1 = Len(text_blocks)
                        THEN step' = 2 /\ pc' = "step3"
                        ELSE UNCHANGED <<step, pc>>
    /\ UNCHANGED <<client, source_lang, target_lang, ncalls, hist, stored,
                   results, rvars, cvars, xvars, pdf, opts, ocr_available,
                   doc, text_blocks, images, output_doc, output_bytes>>

\* Step 3, up to the call of translate_images (lines 550-564)
BeginImageTranslation ==
    /\ pc = "step3"
    /\ IF opts.translate_images
       THEN \E ocr \in OcrResponses :
            LET extracted == extract_images(pdf.pages)
                ims == process_images(ocr_available, extracted)
            IN  IF ocr = "never" /\ ocr_available /\ extracted # <<>>
                THEN /\ progress' = notify(progress, 5, 10)
                     /\ images' = extracted
                     /\ pc' = "blocked"
                     /\ UNCHANGED <<idx, step>>
                ELSE
                /\ progress' = notify(notify(progress, 5, 10), 6, 10)
                /\ images' = ims
                /\ idx' = 0
                /\ IF ims = <<>>
                   THEN step' = 3 /\ pc' = "step4"
                   ELSE pc' = "translate_images" /\ UNCHANGED step
       ELSE /\ pc' = "step4"
            /\ UNCHANGED <<progress, images, idx, step>>
    /\ UNCHANGED <<tvars, rvars, cvars, xvars, pdf, opts, ocr_available, doc, text_blocks,
                   translated_blocks, output_doc, output_bytes, raised_by,
                   ncalled>>

\* One iteration of translate_images' loop with its progress callback
\* (lines 309-314), and after the last one step = 3 (line 564).
TranslateImage ==
    /\ pc = "translate_images"
    /\ \E o \in PipelineOutcomes :
         LET img == images[idx + 1]
             r == translate_image(cache, img, o)
             u == update_progress(progress, idx + 1, Len(images))
         IN  IF r.called /\ o.kind = "hang"
             THEN /\ pc' = "blocked"
                  /\ ncalled' = ncalled + 1
                  /\ UNCHANGED <<images, cache, progress, idx, step,
                                 raised_by, ti>>
             ELSE
             /\ images' = [images EXCEPT ![idx + 1].translated_text = r.ret]
             /\ ti' = Append(ti, [before |-> img, called |-> r.called,
                                  path |-> r.path])
             /\ cache' = r.cache
             /\ ncalled' = ncalled + (IF r.called THEN 1 ELSE 0)
             /\ progress' = u.log
             /\ idx' = idx + 1
             /\ IF u.raised
                THEN /\ pc' = "raised"
                     /\ raised_by' = "progress_callback"
                     /\ UNCHANGED step
                ELSE /\ UNCHANGED raised_by
                     /\ IF idx + 1 = Len(images)
                        THEN step' = 3 /\ pc' = "step4"
                        ELSE UNCHANGED <<step, pc>>
    /\ UNCHANGED <<client, source_lang, target_lang, ncalls, hist, stored,
                   results, tb, rvars, img_results, cb_calls, threads,
                   xvars, pdf,
                   opts, ocr_available, doc, text_blocks, translated_blocks,
                   output_doc, output_bytes>>

\* Step 4: output_doc = self.renderer.create_translated_pdf(doc,
\* translated_blocks, translated_images) (lines 567-572)
RenderOutput ==
    /\ pc = "step4"
    /\ progress' = notify(progress, 8, 10)
    /\ \E e \in PipelineRenderOutcomes, ie \in PipelineImageRenderOutcomes :
         LET r == create_translated_pdf(
                      pdf.pages, translated_blocks, images, TRUE,
                      [i \in 1..Len(translated_blocks) |-> e],
                      [i \in 1..Len(images) |-> ie])
         IN  /\ output_doc' = [state |-> "open", pages |-> r.pages]
             /\ IF r.raised
                THEN pc' = "raised" /\ raised_by' = "create_translated_pdf"
                ELSE pc' = "serialize" /\ UNCHANGED raised_by
    /\ UNCHANGED <<tvars, rvars, cvars, xvars, pdf, opts, ocr_available, doc, text_blocks,
                   translated_blocks, images, step, idx, output_bytes,
                   ncalled>>

\* output_doc.tobytes(), the two close() calls, the last progress call and
\* the return (lines 575-584)
ReturnBytes ==
    /\ pc = "serialize"
    /\ output_bytes' = output_doc.pages
    /\ doc' = "closed"
    /\ output_doc' = [output_doc EXCEPT !.state = "closed"]
    /\ progress' =
         IF opts.progress_callback = "none" THEN progress
         ELSE Append(progress, [num |-> 10, den |-> 10, message |-> TRUE,
                                closed |-> TRUE])
    /\ pc' = "returned"
    /\ UNCHANGED <<tvars, rvars, cvars, xvars, pdf, opts, ocr_available, text_blocks,
                   translated_blocks, images, step, idx, raised_by, ncalled>>

\* A PDFTranslator (lines 494-505) whose translate_pdf has just been called.
Init ==
    /\ RendererIdle
    /\ ExtractorIdle
    /\ NoImageCall
    /\ NoThreads
    /\ client \in BOOLEAN
    /\ source_lang = <<101, 110>>
    /\ target_lang = <<107, 111>>
    /\ cache = << >>
    /\ ncalls = 0
    /\ hist = <<>>
    /\ stored = {}
    /\ results = <<>>
    /\ tb = <<>>
    /\ pc = "call"
    /\ pdf \in Pdfs
    /\ opts \in Options
    /\ ocr_available \in BOOLEAN
    /\ doc = "unopened"
    /\ text_blocks = <<>>
    /\ translated_blocks = <<>>
    /\ images = <<>>
    /\ step = 0
    /\ idx = 0
    /\ progress = <<>>
    /\ output_doc = [state |-> "none", pages |-> <<>>]
    /\ output_bytes = "none"
    /\ raised_by = "none"
    /\ ncalled = 0

Next ==
    \/ OpenDocument
    \/ ExtractTextBlocks
    \/ BeginTextTranslation
    \/ TranslateBlock
    \/ BeginImageTranslation
    \/ TranslateImage
    \/ RenderOutput
    \/ ReturnBytes

Spec == Init /\ [][Next]_vars

\* translate_pdf runs in one thread: a step that can be taken is taken.
SpecLive == Init /\ [][Next]_vars /\ WF_vars(Next)

----------------------------------------------------------------------------
(* Calls of PDFTextExtractor.extract_images and of the OCRProcessor *)

\* Embedded images handed to one extract_images or process_images call.
MaxImages == 3

\* Embedded images: 50x50, 49x50, 50x49 and 100x100 ones that decode, and a
\* 100x100 one whose extraction raises.
EmbeddedImages ==
    { Image(50, 50, FALSE, "ok", <<97>>), Image(49, 50, FALSE, "ok", <<97>>),
      Image(50, 49, FALSE, "ok", <<97>>), Image(100, 100, FALSE, "ok", <<97>>),
      Image(100, 100, TRUE, "ok", <<97>>) }

EmbeddedImageLists == UNION { [1..k -> EmbeddedImages] : k \in 0..MaxImages }

\* Two-page documents: the first s images on page 0, the others on page 1.
ExtractDocs ==
    UNION { { <<[images |-> SubSeq(l, 1, s)],
                [images |-> SubSeq(l, s + 1, Len(l))]>> : s \in 0..Len(l) } :
            l \in EmbeddedImageLists }

\* min_size: the default and 100.
MinSizes == { MinSize, 100 }

\* extractor.extract_images(doc, min_size)
ExtractImagesCall ==
    /\ xpc = "idle"
    /\ \E pages \in ExtractDocs, min_size \in MinSizes :
         /\ xin' = [op |-> "extract_images", pages |-> pages,
                    min_size |-> min_size]
         /\ xout' = extract_images_from(pages, 0, min_size)
    /\ xpc' = "returned"
    /\ UNCHANGED <<tvars, rvars, pvars, cvars>>

\* Images handed to the OCRProcessor.
OcrImages == { OkImage, NoTextImage, OcrFailImage }

\* ocr_processor.process_image(image)
ProcessImageCall ==
    /\ xpc = "idle"
    /\ \E available \in BOOLEAN, image \in OcrImages :
         /\ xin' = [op |-> "process_image", available |-> available,
                    image |-> image]
         /\ xout' = process_image(available, image)
    /\ xpc' = "returned"
    /\ UNCHANGED <<tvars, rvars, pvars, cvars>>

\* ImageBlocks handed to process_images: ocr_text "" or "b" beforehand.
OcrBlockChoices ==
    { ImageBlock(im, 0, t, <<>>) : im \in OcrImages, t \in {<<>>, <<98>>} }

OcrBlockLists == UNION { [1..k -> OcrBlockChoices] : k \in 0..MaxImages }

\* ocr_processor.process_images(images)
ProcessImagesCall ==
    /\ xpc = "idle"
    /\ \E available \in BOOLEAN, imgs \in OcrBlockLists :
         /\ xin' = [op |-> "process_images", available |-> available,
                    imgs |-> imgs]
         /\ xout' = process_images(available, imgs)
    /\ xpc' = "returned"
    /\ UNCHANGED <<tvars, rvars, pvars, cvars>>

\* Lines handed to one extract_text_blocks call.
MaxLines == 2

\* Lines: the four above, an alpha in Arial, "a" in a font named Math, "a"
\* in a font without a name, prose followed by a formula run, a blank
\* formula run followed by prose, and a line without runs.
SampleLines ==
    { ProseLine, FormulaLine, BlankLine, PaddedLine,
      <<Span(<<945>>, Arial)>>,
      <<Span(<<97>>, <<77, 97, 116, 104>>)>>,
      <<Span(<<97>>, <<>>)>>,
      <<Span(<<97>>, Arial), Span(<<97>>, CMMI10)>>,
      <<Span(<<32>>, CMMI10), Span(<<97, 32>>, Arial)>>,
      <<>> }

LineLists == UNION { [1..k -> SampleLines] : k \in 0..MaxLines }

\* Two-page documents: the first s lines on page 0, the others on page 1.
TextDocs ==
    UNION { { <<[lines |-> SubSeq(l, 1, s)],
                [lines |-> SubSeq(l, s + 1, Len(l))]>> : s \in 0..Len(l) } :
            l \in LineLists }

\* extractor.extract_text_blocks(doc)
ExtractTextBlocksCall ==
    /\ xpc = "idle"
    /\ \E pages \in TextDocs :
         /\ xin' = [op |-> "extract_text_blocks", pages |-> pages]
         /\ xout' = extract_text_blocks(pages)
    /\ xpc' = "returned"
    /\ UNCHANGED <<tvars, rvars, pvars, cvars>>

InitExtract ==
    ExtractorIdle /\ RendererIdle /\ TranslatorIdle /\ PipelineIdle

NextExtract ==
    \/ ExtractImagesCall
    \/ ProcessImageCall
    \/ ProcessImagesCall
    \/ ExtractTextBlocksCall

SpecExtract == InitExtract /\ [][NextExtract]_vars

----------------------------------------------------------------------------
(* PDFTranslator.get_pdf_info *)

\* pdf_bytes given to get_pdf_info: bytes fitz.open cannot parse, or a
\* document with its metadata.
InfoPdfs ==
    { [valid |-> FALSE, pages |-> <<>>, metadata |-> "none"] }
    \cup { [valid |-> TRUE, pages |-> d, metadata |-> m] :
             d \in Documents, m \in {"titled", "untitled"} }

get_pdf_info_unfiltered(d) ==
    [page_count |-> Len(d.pages),
     metadata |-> d.metadata,
     text_blocks_count |-> Len(extract_text_blocks(d.pages)),
     images_count |-> Len(extract_images_from(d.pages, 0, 0))]

\* The dictionary get_pdf_info returns for a document that opens.
get_pdf_info(d) ==
    [page_count |-> Len(d.pages),
     metadata |-> d.metadata,
     text_blocks_count |-> Len(extract_text_blocks(d.pages)),
     images_count |-> Len(extract_images(d.pages))]

\* pdf_translator.get_pdf_info(pdf_bytes)
GetPdfInfoCall ==
    /\ xpc = "idle"
    /\ \E d \in InfoPdfs :
         /\ xin' = [op |-> "get_pdf_info", pdf |-> d]
         /\ IF d.valid
            THEN xout' = get_pdf_info(d) /\ xpc' = "returned"
            ELSE xout' = << >> /\ xpc' = "raised"
    /\ UNCHANGED <<tvars, rvars, pvars, cvars>>

\* A PDFTranslator whose Translator has been used and whose get_pdf_info
\* is called.
NextInfo == TranslateTextCall \/ GetPdfInfoCall

InitInfo ==
    /\ InitTr
    /\ source_lang = <<101, 110>>
    /\ target_lang = <<107, 111>>

SpecInfo == InitInfo /\ [][NextInfo]_vars

----------------------------------------------------------------------------
(* Claims about the Translator, checked under SpecTr *)

NonBlank(text) == text # <<>> /\ strip(text) # <<>>

\* C1: in the value translate_blocks returns, every block with
\* is_formula = TRUE is paired with exactly its own text, and for that block
\* the backend was not called and the cache was not written, whatever the
\* backend would have replied.
C1_FormulaPreserved ==
    \A i \in 1..Len(results) :
        results[i][1].is_formula =>
            /\ results[i][2] = results[i][1].text
            /\ ~tb[i].called
            /\ ~tb[i].wrote

\* A translate_blocks call on a Translator with a backend that returned a
\* formula block beside a block the backend did transform.
C1_Witness ==
    /\ client
    /\ \E i, j \in 1..Len(results) :
         /\ results[i][1].is_formula
         /\ ~results[j][1].is_formula
         /\ tb[j].called
         /\ results[j][2] # results[j][1].text

\* C2 as stated: two consecutive translate_text calls with the same
\* non-blank text issue at most one backend call and return the same value,
\* whatever the backend does.
C2_Original ==
    (Len(hist) = 2 /\ hist[1].text = hist[2].text /\ NonBlank(hist[1].text))
    => /\ ~(hist[1].called /\ hist[2].called)
       /\ hist[1].ret = hist[2].ret

\* C2 amended: the same, when the first call did not end in a backend
\* failure (a failed backend call stores nothing, so the next call for the
\* same text calls the backend again).
C2_IdempotentUnlessFailed ==
    (/\ Len(hist) = 2
     /\ hist[1].text = hist[2].text
     /\ NonBlank(hist[1].text)
     /\ ~(hist[1].called /\ hist[1].okind # "ok"))
    => /\ ~(hist[1].called /\ hist[2].called)
       /\ hist[1].ret = hist[2].ret

\* A successful backend call followed by a call for the same text that the
\* backend would have failed.
C2_Witness ==
    /\ Len(hist) = 2
    /\ hist[1].text = hist[2].text
    /\ hist[1].called /\ hist[1].okind = "ok"
    /\ ~hist[2].called
    /\ hist[2].ret = hist[1].ret
    /\ hist[2].ret # hist[2].text

\* A translate_text call that returned a value read from the cache.
FromCache(h) ==
    /\ NonBlank(h.text)
    /\ cache_key(source_lang, target_lang, h.text) \in DOMAIN h.before

\* C3: a value translate_text returns from the cache was stored by an
\* earlier successful backend call for the same (source_lang, target_lang,
\* text), and no cache key was ever written for two different triples.
C3_CacheKeyedByTriple ==
    /\ \A i \in 1..Len(hist) :
         FromCache(hist[i]) =>
            /\ ~hist[i].called
            /\ \E s \in stored :
                 /\ s.source_lang = source_lang
                 /\ s.target_lang = target_lang
                 /\ s.text = hist[i].text
                 /\ s.value = hist[i].ret
                 /\ s.path = "success"
    /\ \A s1, s2 \in stored :
         s1.key = s2.key =>
            /\ s1.source_lang = s2.source_lang
            /\ s1.target_lang = s2.target_lang
            /\ s1.text = s2.text

\* A cache hit while the cache also holds an entry for a text that differs
\* from the requested one only by whitespace.
C3_Witness ==
    /\ Cardinality(DOMAIN cache) = 2
    /\ \E i \in 1..Len(hist) :
         FromCache(hist[i]) /\ hist[i].ret # hist[i].text

\* C6: a translate_text call whose backend call failed (raised, or returned
\* a response that cannot be read) returns its input text, raises nothing
\* and leaves the cache as it was.
C6_BackendFailureFailsOpen ==
    \A i \in 1..Len(hist) :
        (hist[i].called /\ hist[i].okind # "ok") =>
            /\ hist[i].ret = hist[i].text
            /\ ~hist[i].raised
            /\ hist[i].after = hist[i].before

\* A malformed response on a Translator whose cache is not empty.
C6_Witness ==
    \E i \in 1..Len(hist) :
        /\ hist[i].called
        /\ hist[i].okind = "malformed"
        /\ hist[i].before # << >>

----------------------------------------------------------------------------
(* Claims about the Renderer, checked under SpecRender *)

\* C4: the document create_translated_pdf returns has as many pages as the
\* source document, and page i has the width and height of source page i,
\* for every list of translated blocks and images and both rendering modes.
C4_GeometryPreserved ==
    rpc = "returned" =>
        /\ Len(rout) = Len(rin.source_doc)
        /\ \A i \in 1..Len(rout) :
             /\ rout[i].width = rin.source_doc[i].width
             /\ rout[i].height = rin.source_doc[i].height

\* A two-page document with pages of different sizes, rendered in replace
\* mode with a block redrawn on its second page.
C4_Witness ==
    /\ rpc = "returned"
    /\ Len(rout) = 2
    /\ rout[1].width # rout[2].width
    /\ ~rin.overlay_mode
    /\ \E k \in 1..Len(rout[2].ops) : rout[2].ops[k].op = "draw_rect"

----------------------------------------------------------------------------
(* Claims about translate_pdf, checked under Spec *)

\* Every pair built so far pairs a block with its own text.
PairsKeepOwnText ==
    \A i \in 1..Len(translated_blocks) :
        translated_blocks[i][2] = translated_blocks[i][1].text

\* C5 as stated: with no backend configured, translate_pdf on a valid PDF
\* does not fail, returns an output with the page count of the input, pairs
\* every block with its own text and never calls the backend.
C5_Original ==
    (~client /\ pdf.valid) =>
        /\ pc # "raised"
        /\ ncalled = 0
        /\ PairsKeepOwnText
        /\ (pc = "returned" => Len(output_bytes) = Len(pdf.pages))

\* The part of C5 the code satisfies: without a backend no backend call
\* is made, every pair keeps the block's own text, and a call that returns
\* returns as many pages as the input has.
C5_PairsAndNoBackendCall ==
    (~client /\ pdf.valid) =>
        /\ ncalled = 0
        /\ PairsKeepOwnText
        /\ (pc = "returned" => Len(output_bytes) = Len(pdf.pages))

\* C7 as stated: for a PDF that opens, no failure of the backend, OCR,
\* image decoding, block rendering or the progress callback leaves
\* translate_pdf; the only exception it raises is fitz.open's.
C7_Original ==
    pc = "raised" => (~pdf.valid /\ raised_by = "fitz.open")

\* C8: when the bytes do not parse, translate_pdf raises at fitz.open: no
\* progress callback, extraction, translation or rendering has happened, no
\* document is open and nothing is returned.
C8_FatalInputError ==
    ~pdf.valid =>
        /\ pc \in {"call", "raised"}
        /\ (pc = "raised" => raised_by = "fitz.open")
        /\ progress = <<>>
        /\ text_blocks = <<>>
        /\ translated_blocks = <<>>
        /\ images = <<>>
        /\ ncalled = 0
        /\ doc = "unopened"
        /\ output_doc.state = "none"
        /\ output_bytes = "none"

\* translate_pdf has raised on bytes that do not parse, with every stage
\* requested and a progress callback given.
C8_Witness ==
    /\ ~pdf.valid
    /\ pc = "raised"
    /\ opts.translate_text /\ opts.translate_images
    /\ opts.progress_callback # "none"
    /\ client

\* C9 as stated: when translate_pdf has returned or raised, no document it
\* opened is still open.
C9_Original ==
    pc \in {"returned", "raised"} =>
        /\ doc # "open"
        /\ output_doc.state # "open"

\* C10 as stated: the fractions passed to the progress callback, stage
\* calls and sub-progress calls together, never decrease.
C10_Original ==
    \A i \in 1..(Len(progress) - 1) :
        progress[i].num * progress[i + 1].den
            <= progress[i + 1].num * progress[i].den


\* C11: every fraction the progress callback receives during translate_pdf
\* lies in [0,1], and 1.0 is received only as the last call of a call that
\* returns, after the output was serialized and both documents were closed;
\* no sub-progress call, the one for the last block or image of a stage
\* included, reports 1.0.
C11_ProgressRangeAndCompletion ==
    \A i \in 1..Len(progress) :
        /\ progress[i].den > 0
        /\ 0 <= progress[i].num
        /\ progress[i].num <= progress[i].den
        /\ progress[i].num = progress[i].den =>
              /\ i = Len(progress)
              /\ progress[i].message
              /\ progress[i].closed
              /\ pc = "returned"
              /\ output_bytes # "none"
              /\ DocsClosed

\* A call that returned after sub-progress calls for the last block of the
\* text stage and the last image of the image stage, and whose last
\* callback reported 1.0.
C11_Witness ==
    /\ pc = "returned"
    /\ Len(text_blocks) > 0
    /\ Len(images) > 0
    /\ \E i \in 1..Len(progress) :
          /\ ~progress[i].message
          /\ progress[i].num * 2 = progress[i].den
    /\ \E i \in 1..Len(progress) :
          /\ ~progress[i].message
          /\ progress[i].num * 4 = progress[i].den * 3
    /\ progress[Len(progress)].num = progress[Len(progress)].den


----------------------------------------------------------------------------
(* Claims about the Renderer's blocks, checked under SpecRender *)

\* The drawing calls made on page p of the output for block i.
BlockOps(p, i) ==
    { k \in 1..Len(rout[p].ops) :
        /\ rout[p].ops[k].item = i
        /\ rout[p].ops[k].op \in
             {"draw_rect", "text_writer", "insert_text", "insert_textbox"} }

\* C12 as stated: whatever fails while a block is rendered (erasing its
\* rectangle or inserting its text), create_translated_pdf returns an output
\* with every page, and every block a page redraws has been processed.
C12_Original ==
    rpc # "idle" =>
        /\ rpc = "returned"
        /\ Len(rout) = Len(rin.source_doc)
        /\ \A i \in CanDraw(rin.source_doc, rin.tblocks, rin.overlay_mode) :
              BlockOps(rin.tblocks[i][1].page_num + 1, i) # {}

\* C13 as stated: when the first text insertion fails for a block, exactly
\* one fallback insertion is attempted, and when that fails too the block's
\* region has not been erased.
C13_Original ==
    \A p \in 1..Len(rout) : \A i \in 1..Len(rin.tblocks) :
        (\E k \in BlockOps(p, i) :
            rout[p].ops[k].op = "text_writer" /\ ~rout[p].ops[k].ok) =>
        LET fallbacks == { k \in BlockOps(p, i) :
                             rout[p].ops[k].op \in
                                {"insert_text", "insert_textbox"} }
        IN  /\ Cardinality(fallbacks) = 1
            /\ (\A k \in fallbacks : ~rout[p].ops[k].ok) =>
                  ~\E k \in BlockOps(p, i) :
                      rout[p].ops[k].op = "draw_rect" /\ rout[p].ops[k].ok

\* C14: in overlay mode and in replace mode, whatever text is paired with
\* it, no rectangle is painted and no text is inserted on any page of the
\* output for a block with is_formula = true.
C14_FormulaNeverRedrawn ==
    \A p \in 1..Len(rout) : \A i \in 1..Len(rin.tblocks) :
        rin.tblocks[i][1].is_formula => BlockOps(p, i) = {}

\* A replace-mode call that returned, given a formula block paired with a
\* text other than its own and, on the same page, a prose block it redrew.
C14_Witness ==
    /\ rpc = "returned"
    /\ ~rin.overlay_mode
    /\ \E i, j \in 1..Len(rin.tblocks) :
          /\ rin.tblocks[i][1].is_formula
          /\ rin.tblocks[i][2] # rin.tblocks[i][1].text
          /\ ~rin.tblocks[j][1].is_formula
          /\ rin.tblocks[j][1].page_num = rin.tblocks[i][1].page_num
          /\ BlockOps(rin.tblocks[j][1].page_num + 1, j) # {}


----------------------------------------------------------------------------
(* Termination of translate_pdf, checked under SpecLive *)

\* C15 as stated: translate_pdf eventually returns or raises, whatever the
\* translation backend and the OCR engine do, a call that never responds
\* included.
C15_Original == <>(pc \in {"returned", "raised"})


----------------------------------------------------------------------------
(* Claims about the Translator's batch methods *)

\* C19 (SpecTr): translate_blocks returns as many pairs as it was given
\* blocks, the i-th pair holding the i-th block whatever the backend did for
\* it, and a progress callback receives exactly one call per block, the
\* i-th with (i+1)/total counted from 0, so that the last one is 1.0.
C19_AlignedAndProgress ==
    /\ Len(results) = Len(tb)
    /\ \A i \in 1..Len(results) : results[i][1] = tb[i].block
    /\ cb_calls # <<>> /\ img_results = <<>> =>
          /\ Len(cb_calls) = Len(results)
          /\ \A i \in 1..Len(cb_calls) :
                cb_calls[i].num = i /\ cb_calls[i].den = Len(results)
          /\ cb_calls[Len(cb_calls)].num = cb_calls[Len(cb_calls)].den

\* A translate_blocks call with a progress callback over at least two
\* blocks, the backend having failed for one and answered for another.
C19_Witness ==
    /\ Len(results) >= 2
    /\ Len(cb_calls) = Len(results)
    /\ \E i, j \in 1..Len(tb) :
          tb[i].path = "failure" /\ tb[j].path = "success"

\* C20 (SpecTrImages): translate_images leaves ocr_text as it was for every
\* image; an image with empty ocr_text keeps its translated_text and causes
\* no backend call; an image with non-empty ocr_text has translated_text
\* set to what translate_text returns for its ocr_text: the cached
\* translation, or the ocr_text itself when there is none.
C20_TranslatedIffOcrText ==
    /\ Len(img_results) = Len(ti)
    /\ \A i \in 1..Len(ti) :
          LET before == ti[i].before
              key == cache_key(source_lang, target_lang, before.ocr_text)
          IN  /\ img_results[i].ocr_text = before.ocr_text
              /\ img_results[i].image = before.image
              /\ img_results[i].page_num = before.page_num
              /\ IF before.ocr_text = <<>>
                 THEN /\ ~ti[i].called
                      /\ ti[i].path = "skip"
                      /\ img_results[i].translated_text
                            = before.translated_text
                 ELSE /\ ti[i].path # "skip"
                      /\ img_results[i].translated_text =
                            IF ti[i].path \in {"hit", "success"}
                            THEN cache[key] ELSE before.ocr_text

\* A translate_images call given an image with empty ocr_text that already
\* had a translated_text, and an image with ocr_text the backend translated.
C20_Witness ==
    \E i, j \in 1..Len(ti) :
        /\ ti[i].before.ocr_text = <<>>
        /\ ti[i].before.translated_text # <<>>
        /\ ti[j].before.ocr_text # <<>>
        /\ ti[j].path = "success"
        /\ img_results[j].translated_text # ti[j].before.ocr_text


----------------------------------------------------------------------------
(* Claims about extract_images and the OCRProcessor, checked under
   SpecExtract *)

\* The embedded images of a document in document order, each with the index
\* of its page.
RECURSIVE Embedded(_, _)
Embedded(pages, page_num) ==
    IF page_num >= Len(pages) THEN <<>>
    ELSE [k \in 1..Len(pages[page_num + 1].images) |->
            [image |-> pages[page_num + 1].images[k], page_num |-> page_num]]
         \o Embedded(pages, page_num + 1)

\* C16: when extracting some embedded images fails, extract_images still
\* returns: its value holds, in document order, an ImageBlock for every
\* image whose extraction succeeds and whose size passes the filter, and
\* nothing else.
C16_PartialFailureTolerance ==
    (xpc = "returned" /\ xin.op = "extract_images") =>
        LET Keep(e) == /\ ~e.image.corrupt
                       /\ e.image.width >= xin.min_size
                       /\ e.image.height >= xin.min_size
            kept == SelectSeq(Embedded(xin.pages, 0), Keep)
        IN  xout = [k \in 1..Len(kept) |->
                      ImageBlock(kept[k].image, kept[k].page_num,
                                 <<>>, <<>>)]

\* An extract_images call on a page whose second image fails to extract,
\* between two images that are returned.
C16_Witness ==
    /\ xpc = "returned"
    /\ xin.op = "extract_images"
    /\ \E p \in 1..Len(xin.pages) :
          /\ Len(xin.pages[p].images) = 3
          /\ xin.pages[p].images[2].corrupt
          /\ Len(xout) = 2
          /\ xout[1].image = xin.pages[p].images[1]
          /\ xout[2].image = xin.pages[p].images[3]
          /\ xout[1].image # xout[2].image

C18_OcrBestEffort ==
    xpc = "returned" =>
        /\ xin.op = "process_image" =>
              ((~xin.available \/ xin.image.ocr_kind = "raise")
                  => xout = <<>>)
        /\ (xin.op = "process_images" /\ ~xin.available) => xout = xin.imgs

\* A process_images call with the backend unavailable on images one of
\* which already had an ocr_text.
C18_Witness ==
    /\ xpc = "returned"
    /\ xin.op = "process_images"
    /\ ~xin.available
    /\ Len(xin.imgs) >= 2
    /\ \E i \in 1..Len(xin.imgs) : xin.imgs[i].ocr_text # <<>>
    /\ \E i \in 1..Len(xout) : xout[i].ocr_text # <<>>


----------------------------------------------------------------------------
(* Claims about get_pdf_info, checked under SpecInfo *)

\* The lines of a document that have a character other than white space.
TextLines(pages) ==
    UNION { { <<p, k>> : k \in
                { k \in 1..Len(pages[p].lines) :
                    \E j \in 1..Len(pages[p].lines[k]) :
                      \E c \in 1..Len(pages[p].lines[k][j].text) :
                        ~IsSpace(pages[p].lines[k][j].text[c]) } } :
            p \in 1..Len(pages) }

\* The images of a document that decode and are at least MinSize wide and
\* high.
LargeImages(pages) ==
    UNION { { <<p, k>> : k \in
                { k \in 1..Len(pages[p].images) :
                    /\ ~pages[p].images[k].corrupt
                    /\ pages[p].images[k].width >= MinSize
                    /\ pages[p].images[k].height >= MinSize } } :
            p \in 1..Len(pages) }

\* C21: a get_pdf_info call leaves the translation cache, the backend call
\* count, the OCR results, the renderer and every other part of the
\* Translator and of translate_pdf exactly as they were, and what it returns
\* is the page count, the metadata, the number of text blocks and the number
\* of images of the document it was given.
C21_InfoReadOnly ==
    [][(xpc = "idle" /\ xpc' # "idle") =>
          /\ cache' = cache
          /\ stored' = stored
          /\ ncalls' = ncalls
          /\ UNCHANGED <<rvars, pvars, cvars>>
          /\ xpc' = "returned" =>
                /\ xout'.page_count = Len(xin'.pdf.pages)
                /\ xout'.metadata = xin'.pdf.metadata
                /\ xout'.text_blocks_count
                      = Cardinality(TextLines(xin'.pdf.pages))
                /\ xout'.images_count
                      = Cardinality(LargeImages(xin'.pdf.pages))]_vars

\* get_pdf_info has returned for a two-page document with a blank line, a
\* small image and an image that does not decode, on a PDFTranslator whose
\* cache holds a translation.
C21_Witness ==
    /\ xpc = "returned"
    /\ xin.op = "get_pdf_info"
    /\ DOMAIN cache # {}
    /\ xout.page_count = 2
    /\ xout.text_blocks_count = 3
    /\ xout.images_count = 1
    /\ \E p \in 1..2 : xin.pdf.pages[p].lines = <<BlankLine, PaddedLine>>


----------------------------------------------------------------------------
(* Claims about the stages of translate_pdf, checked under Spec *)

\* C22: in a translate_pdf call, a translation (a pair built, a backend call
\* made, images processed) happens only after text extraction has finished;
\* rendering has started only when every extracted block has its pair and,
\* if images were requested, every image has been through translate_images;
\* and bytes exist only when the output document has all the pages.
C22_StageOrdering ==
    /\ (translated_blocks # <<>> \/ images # <<>> \/ ncalled > 0) =>
          /\ step >= 1
          /\ pc \notin {"call", "step1"}
    /\ pc \in {"translate_blocks", "translate_images"} =>
          /\ output_doc.state = "none"
          /\ output_bytes = "none"
    /\ output_doc.state # "none" =>
          /\ pc \in {"serialize", "returned", "raised"}
          /\ Len(translated_blocks) = Len(text_blocks)
          /\ \A i \in 1..Len(text_blocks) :
                translated_blocks[i][1] = text_blocks[i]
          /\ opts.translate_images => (step = 3 /\ idx = Len(images))
          /\ ~opts.translate_images => step = 2
    /\ output_bytes # "none" =>
          /\ pc = "returned"
          /\ output_doc.state # "none"
          /\ Len(output_doc.pages) = Len(pdf.pages)
          /\ output_bytes = output_doc.pages

\* A call that returned after translating at least two text blocks and at
\* least two images with the backend.
C22_Witness ==
    /\ pc = "returned"
    /\ opts.translate_text
    /\ opts.translate_images
    /\ Len(text_blocks) >= 2
    /\ Len(images) >= 2
    /\ ncalled >= 2
    /\ \E i \in 1..Len(images) : images[i].translated_text # <<>>


----------------------------------------------------------------------------
(* Rendering modes, checked under SpecRender *)

\* C23 as stated: a create_translated_pdf call that returns has erased and
\* redrawn, on each page and in either mode, exactly the blocks of that page
\* with is_formula = false whose translated text differs from their own.
C23_Original ==
    rpc = "returned" =>
        \A p \in 1..Len(rout) : \A i \in 1..Len(rin.tblocks) :
            BlockOps(p, i) # {} <=>
                /\ rin.tblocks[i][1].page_num = p - 1
                /\ ~rin.tblocks[i][1].is_formula
                /\ rin.tblocks[i][2] # rin.tblocks[i][1].text


Captioned(p) ==
    { output_doc.pages[p].ops[k].item :
        k \in { k \in 1..Len(output_doc.pages[p].ops) :
                  output_doc.pages[p].ops[k].op
                     \in {"caption_rect", "caption_text"} } }

\* C25: with translate_images false, translate_pdf extracts no image, gives
\* none to OCR or to translate_images, and its output has no caption; with
\* translate_images true, a page of the output has a caption only for an
\* ImageBlock of that page whose translated_text is not empty.
C25_ImagesOnRequest ==
    /\ ~opts.translate_images =>
          /\ images = <<>>
          /\ ti = <<>>
          /\ pc \notin {"translate_images"}
          /\ \A p \in 1..Len(output_doc.pages) : Captioned(p) = {}
    /\ \A p \in 1..Len(output_doc.pages) : \A i \in Captioned(p) :
          /\ i \in 1..Len(images)
          /\ images[i].page_num = p - 1
          /\ images[i].translated_text # <<>>

\* A call with translate_images true that returned, its output having a
\* caption for an image with a translation and none for an image of the
\* same page that OCR read nothing from.
C25_Witness ==
    /\ pc = "returned"
    /\ opts.translate_images
    /\ \E i, j \in 1..Len(images) :
          /\ images[i].page_num = images[j].page_num
          /\ i \in Captioned(images[i].page_num + 1)
          /\ images[j].translated_text = <<>>
          /\ j \notin Captioned(images[j].page_num + 1)


\* C27 as stated: every call the progress callback receives during
\* translate_pdf, the sub-progress calls of the translation stages
\* included, carries a fraction and a message.
C27_Original == \A i \in 1..Len(progress) : progress[i].message


----------------------------------------------------------------------------
(* Claims about concurrent translate_text calls, checked under SpecConc *)

\* A thread is between finding its key absent and storing its result.
Updating(t) == threads[t].pc \in {"backend", "store"}

\* Every cache entry is a backend result stored for the text of its key.
EntriesOwnKey ==
    \A k \in DOMAIN cache :
        \E w \in stored :
            /\ w.key = k
            /\ w.value = cache[k]
            /\ cache_key(w.source_lang, w.target_lang, w.text) = k

\* A call that is over returned a value cached for its key, its own backend
\* result, or its own text.
ReturnsOwn ==
    \A t \in Threads :
        threads[t].pc = "done" =>
            \/ threads[t].ret = threads[t].text
            \/ threads[t].ret = threads[t].reply
            \/ \E w \in stored :
                  w.key = ThreadKey(t) /\ w.value = threads[t].ret

C26_EntriesAndReturns == EntriesOwnKey /\ ReturnsOwn


----------------------------------------------------------------------------
(* The extraction rule, checked under SpecExtract *)

\* The lines of a document in document order, each with the index of its
\* page.
RECURSIVE DocLines(_, _)
DocLines(pages, page_num) ==
    IF page_num >= Len(pages) THEN <<>>
    ELSE [k \in 1..Len(pages[page_num + 1].lines) |->
            [spans |-> pages[page_num + 1].lines[k], page_num |-> page_num]]
         \o DocLines(pages, page_num + 1)

\* C28: extract_text_blocks returns, in document order, one TextBlock for
\* every line that has a character other than white space and none for any
\* other line; the block is flagged is_formula exactly when some run of the
\* line has a formula font (a name containing a pattern, whatever the case:
\* CMMI10, Math) or a character in a reserved range (alpha), so a line that
\* mixes prose and formula runs is flagged as a whole.
C28_ExtractionRule ==
    /\ is_formula_font(CMMI10)
    /\ is_formula_font(<<77, 97, 116, 104>>)
    /\ ~is_formula_font(Arial)
    /\ ~is_formula_font(<<>>)
    /\ is_formula_char(945)
    /\ ~is_formula_char(97)
    /\ (xpc = "returned" /\ xin.op = "extract_text_blocks") =>
          LET HasText(l) ==
                  \E j \in 1..Len(l.spans) :
                    \E c \in 1..Len(l.spans[j].text) :
                       ~IsSpace(l.spans[j].text[c])
              kept == SelectSeq(DocLines(xin.pages, 0), HasText)
          IN  /\ Len(xout) = Len(kept)
              /\ \A k \in 1..Len(kept) :
                    /\ xout[k].page_num = kept[k].page_num
                    /\ xout[k].text = strip(line_text(kept[k].spans))
                    /\ xout[k].is_formula <=>
                          \E j \in 1..Len(kept[k].spans) :
                             \/ is_formula_font(kept[k].spans[j].font)
                             \/ \E c \in 1..Len(kept[k].spans[j].text) :
                                   is_formula_char(kept[k].spans[j].text[c])

\* An extract_text_blocks call on a blank line and a line with a prose run
\* and a formula run: one block, flagged as formula.
C28_Witness ==
    /\ xpc = "returned"
    /\ xin.op = "extract_text_blocks"
    /\ \E p \in 1..Len(xin.pages) :
          xin.pages[p].lines =
             <<BlankLine, <<Span(<<97>>, Arial), Span(<<97>>, CMMI10)>>>>
    /\ Len(xout) = 1
    /\ xout[1].is_formula
    /\ xout[1].text = <<97, 97>>


----------------------------------------------------------------------------
(* The cache of a Translator used by one caller, checked under SpecTr *)

\* C29: a translate_text call that ends in a successful backend call adds
\* the entry of its own key, which was absent, and keeps every other entry;
\* a call with blank input, without a client, with a cache hit or with a
\* failing backend leaves the cache exactly as it was; every entry ever
\* written was written by a successful backend call; and no step of the
\* Translator, translate_blocks included, removes an entry or changes its
\* value.
C29_CacheWrittenOnlyBySuccess ==
    /\ [](\A i \in 1..Len(hist) :
            LET h == hist[i]
                key == cache_key(source_lang, target_lang, h.text)
            IN  IF h.path = "success"
                THEN /\ h.called
                     /\ h.okind = "ok"
                     /\ key \notin DOMAIN h.before
                     /\ DOMAIN h.after = DOMAIN h.before \cup {key}
                     /\ \A k \in DOMAIN h.before : h.after[k] = h.before[k]
                ELSE h.after = h.before)
    /\ [](\A w \in stored : w.path = "success")
    /\ [][\A k \in DOMAIN cache :
             k \in DOMAIN cache' /\ cache'[k] = cache[k]]_vars

\* A successful backend call that stored an entry, followed by a failing
\* backend call for another text that left the cache as it was.
C29_Witness ==
    /\ Len(hist) = 2
    /\ hist[1].path = "success"
    /\ hist[1].after # hist[1].before
    /\ hist[2].path = "failure"
    /\ hist[2].text # hist[1].text
    /\ hist[2].after = hist[1].after
    /\ cache = hist[2].after

====
